---- MODULE Spec2Model ----
(***************************************************************************)
(* homebridge-lomi: the platform's startup (login, directory fetch,       *)
(* selection by nickname, accessory creation) and the accessory's         *)
(* periodic status refresh (directory fetch, selection by deviceId,       *)
(* cached entry, display name and sensor value).                          *)
(*                                                                         *)
(* The remote directory and the two HTTP endpoints are the environment:    *)
(* the directory changes at any time, a request is answered at some point  *)
(* between its sending and the resumption of the awaiting caller, and a    *)
(* request can fail in every way node-fetch and the code distinguish.      *)
(***************************************************************************)
EXTENDS Integers, Sequences, FiniteSets, TLC

(* ------------------------------ bounds -------------------------------- *)

\* Calls of updateStatus that may be awaiting their fetch at the same time.
MaxInFlight == 2

\* Changes the remote directory undergoes during one run.
MaxChanges == 1

\* Largest cycleTimeRemaining (seconds) the display mapping is applied to.
MaxSeconds == 200

(* --------------------------- value universe --------------------------- *)

DeviceIds == {"d1", "d2"}

Nicknames == {"Kitchen", "kitchen"}

\* cycleTimeRemaining?: number -- <<>> is the absent field, <<s>> the number s.
Undefined == <<>>

Defined(s) == <<s>>

CtrValues == {Undefined, Defined(125)}

\* config.deviceNickname, read once by the platform constructor.
deviceNickname == "Kitchen"

\* A DeviceEntry, restricted to the UserDevice fields the code reads
\* (deviceId, nickname, cycleTimeRemaining) and the version counter.
Entry(d, n, c, v) ==
    [deviceId |-> d, nickname |-> n, cycleTimeRemaining |-> c, version |-> v]

\* The value of the accessory's fields before an accessory exists.
NoEntry == Entry("", "", Undefined, 0)

\* api.hap.uuid.generate: a deterministic, injective function of its input.
Uuid(d) == <<"uuid", d>>

\* The ways a request ends without a usable body: a non-success status, a
\* transport failure (fetch rejects), a body that is not the expected JSON.
FetchFailures == {"httpStatus", "transport", "parse"}

\* login() also fails on a success status without AuthenticationResult.
LoginFailures == FetchFailures \cup {"noAuthResult"}

\* A token that fails the test `!this.token`: null, and also an IdToken that
\* the login response left out or left empty.
NoToken == "null"

IdToken == "IdToken"

(* ------------------------------ state --------------------------------- *)

VARIABLES
    directory,      \* remote: the account's device entries, in listing order
    changes,        \* remote: number of changes made to the directory
    pc,             \* platform: "constructed", "login", "fetch", "done"
    token,          \* LomiPlatform.token
    loginResult,    \* how the promise of login() settled
    fetchResult,    \* how the promise of init()'s fetchDevices() settled
    initError,      \* the error init() caught: <<>> or <<thrown by, kind>>
    initResult,     \* how the promise of init() settled
    registered,     \* host: uuids passed to registerPlatformAccessories
    created,        \* whether a LomiPlatformAccessory has been constructed
    selectedId,     \* deviceId of the entry init selected ("" if none)
    deviceEntry,    \* LomiPlatformAccessory.deviceEntry
    displayName,    \* PlatformAccessory.displayName
    sensorValue,    \* CurrentTemperature of the TemperatureSensor service
    updateInterval, \* whether the setInterval timer is scheduled
    calls,          \* updateStatus calls awaiting refreshDeviceStatus
    lastRefresh,    \* the refreshDeviceStatus call completed last: what it
                    \* returned and at which level it logged
    accessories,    \* LomiPlatform.accessories: uuids restored from the cache
    tornDown,       \* host: whether it has removed the accessory
    tokenRejected   \* remote: whether the directory rejects the issued token

vars == <<directory, changes, pc, token, loginResult, fetchResult, initError,
          initResult, registered, created, selectedId, deviceEntry,
          displayName, sensorValue, updateInterval, calls, lastRefresh,
          accessories, tornDown, tokenRejected>>

remoteVars == <<directory, changes>>

platformVars == <<pc, token, loginResult, fetchResult, initError, initResult,
                  registered, selectedId>>

hostVars == <<accessories, tornDown, tokenRejected>>

accessoryVars == <<created, deviceEntry, displayName, sensorValue,
                   updateInterval>>

(* ------------------------- sequence helpers --------------------------- *)

Indices(s) == 1..Len(s)

RemoveAt(s, i) == [j \in 1..(Len(s) - 1) |-> IF j < i THEN s[j] ELSE s[j + 1]]

\* "Kitchen" and "kitchen" folded to one case.
FoldCase(n) == IF n = "kitchen" THEN "Kitchen" ELSE n

\* SelectDevice as it would be with a case-insensitive comparison.
SelectDeviceIgnoreCase(devices, nickname) ==
    IF \E i \in Indices(devices) :
           FoldCase(devices[i].nickname) = FoldCase(nickname)
    THEN [found |-> TRUE,
          entry |-> devices[CHOOSE i \in Indices(devices) :
                        /\ FoldCase(devices[i].nickname) = FoldCase(nickname)
                        /\ \A j \in 1..(i - 1) :
                               FoldCase(devices[j].nickname)
                                   # FoldCase(nickname)]]
    ELSE [found |-> FALSE, entry |-> NoEntry]

\* SelectDevice as it would be if it fell back to the first listed device.
SelectDeviceOrFirst(devices, nickname) ==
    IF \E i \in Indices(devices) : devices[i].nickname = nickname
    THEN [found |-> TRUE,
          entry |-> devices[CHOOSE i \in Indices(devices) :
                        /\ devices[i].nickname = nickname
                        /\ \A j \in 1..(i - 1) : devices[j].nickname # nickname]]
    ELSE IF devices # <<>>
         THEN [found |-> TRUE, entry |-> devices[1]]
         ELSE [found |-> FALSE, entry |-> NoEntry]

\* FindDevice as it would be with a test that every entry passes.
FindDeviceAny(devices, deviceId) ==
    IF devices # <<>>
    THEN [found |-> TRUE, entry |-> devices[1]]
    ELSE [found |-> FALSE, entry |-> NoEntry]

\* Array.prototype.find with the test of init: the first entry, in listing
\* order, whose nickname === the configured nickname.
SelectDevice(devices, nickname) ==
    IF \E i \in Indices(devices) : devices[i].nickname = nickname
    THEN [found |-> TRUE,
          entry |-> devices[CHOOSE i \in Indices(devices) :
                        /\ devices[i].nickname = nickname
                        /\ \A j \in 1..(i - 1) : devices[j].nickname # nickname]]
    ELSE [found |-> FALSE, entry |-> NoEntry]

\* Array.prototype.find with the test of refreshDeviceStatus: the first entry
\* whose deviceId === the argument.
FindDevice(devices, deviceId) ==
    IF \E i \in Indices(devices) : devices[i].deviceId = deviceId
    THEN [found |-> TRUE,
          entry |-> devices[CHOOSE i \in Indices(devices) :
                        /\ devices[i].deviceId = deviceId
                        /\ \A j \in 1..(i - 1) : devices[j].deviceId # deviceId]]
    ELSE [found |-> FALSE, entry |-> NoEntry]

(* ----------------------- error propagation ---------------------------- *)

\* catch of login(): logs and rethrows, so the promise of login() rejects.
LoginCatch(error) == "rejected"

\* catch of fetchDevices(): logs and rethrows.
FetchDevicesCatch(error) == "rejected"

\* The catch of init() as it would be if it rethrew.
InitCatchRethrows(error) == "rejected"

\* catch of init(): logs and falls through, so the promise of init() resolves.
InitCatch(error) == "resolved"

\* refreshDeviceStatus as it would be if its catch rethrew.
RefreshDeviceStatusRethrows(fetch, devices, deviceId) ==
    IF fetch # "ok"
    THEN [kind |-> "raised", log |-> "error", entry |-> NoEntry]
    ELSE IF \E i \in Indices(devices) : devices[i].deviceId = deviceId
         THEN [kind |-> "entry", log |-> "debug",
               entry |-> devices[CHOOSE i \in Indices(devices) :
                             /\ devices[i].deviceId = deviceId
                             /\ \A j \in 1..(i - 1) :
                                    devices[j].deviceId # deviceId]]
         ELSE [kind |-> "undefined", log |-> "warn", entry |-> NoEntry]

\* refreshDeviceStatus: what it hands to updateStatus, given how fetchDevices
\* ended.  fetchDevices rethrows every failure; the catch here returns
\* undefined after log.error.  On success the entry found by deviceId is
\* returned, or undefined after log.warn.
RefreshDeviceStatus(fetch, devices, deviceId) ==
    IF fetch # "ok"
    THEN [kind |-> "undefined", log |-> "error", entry |-> NoEntry]
    ELSE IF FindDevice(devices, deviceId).found
         THEN [kind |-> "entry", log |-> "debug",
               entry |-> FindDevice(devices, deviceId).entry]
         ELSE [kind |-> "undefined", log |-> "warn", entry |-> NoEntry]

(* ------------------------ presentation -------------------------------- *)

\* The mapping as it would be with Math.floor.
MinutesRemainingFloor(seconds) == seconds \div 60

\* Math.round(seconds / 60): Math.round(x) is floor(x + 1/2), and
\* floor(s/60 + 1/2) = floor((s + 30) / 60).
MinutesRemaining(seconds) == (seconds + 30) \div 60

\* The value updateStatus pushes to CurrentTemperature for a fetched entry.
SensorValueOf(entry) ==
    IF entry.cycleTimeRemaining # Undefined
    THEN MinutesRemaining(entry.cycleTimeRemaining[1])
    ELSE 0

\* updateStatus as it would be if an undefined result pushed a fallback 0.
UpdateStatusFallback(before, result) ==
    IF result.kind # "entry"
    THEN [before EXCEPT !.sensorValue = 0]
    ELSE [deviceEntry |-> result.entry,
          displayName |-> result.entry.nickname,
          sensorValue |-> IF result.entry.cycleTimeRemaining # Undefined
                          THEN (result.entry.cycleTimeRemaining[1] + 30) \div 60
                          ELSE 0]

\* updateStatus as it would be if an undefined result cleared the cache.
UpdateStatusClears(before, result) ==
    IF result.kind # "entry"
    THEN [before EXCEPT !.deviceEntry = NoEntry]
    ELSE [deviceEntry |-> result.entry,
          displayName |-> result.entry.nickname,
          sensorValue |-> IF result.entry.cycleTimeRemaining # Undefined
                          THEN (result.entry.cycleTimeRemaining[1] + 30) \div 60
                          ELSE 0]

\* updateStatus as it would be without the display-name update.
UpdateStatusKeepsName(before, result) ==
    IF result.kind # "entry"
    THEN before
    ELSE [deviceEntry |-> result.entry,
          displayName |-> before.displayName,
          sensorValue |-> IF result.entry.cycleTimeRemaining # Undefined
                          THEN (result.entry.cycleTimeRemaining[1] + 30) \div 60
                          ELSE 0]

\* updateStatus after its await: the accessory's fields, given the fields
\* before and what refreshDeviceStatus returned.  Nothing is touched when the
\* result is undefined (early return) or when the call raised (catch).
UpdateStatus(before, result) ==
    IF result.kind # "entry"
    THEN before
    ELSE [deviceEntry |-> result.entry,
          displayName |-> IF before.displayName # result.entry.nickname
                          THEN result.entry.nickname
                          ELSE before.displayName,
          sensorValue |-> SensorValueOf(result.entry)]

\* fetchDevices as it would be without the test of the token.
FetchDevicesStartUnguarded(tok) == "sent"

\* fetchDevices up to its await: it throws before any request when no token
\* is held, and otherwise sends the request with the token.
FetchDevicesStart(tok) == IF tok = NoToken THEN "noToken" ELSE "sent"

\* updateStatus up to its await: refreshDeviceStatus is called with the
\* deviceId of the cached entry and calls fetchDevices.
NewCall(entry, tok) ==
    [deviceId |-> entry.deviceId,
     stage    |-> FetchDevicesStart(tok),
     devices  |-> <<>>]

(* --------------------------- initial state ---------------------------- *)

InitEntries ==
    {Entry(d, n, c, 0) : d \in DeviceIds, n \in Nicknames,
                         c \in CtrValues}

\* The account's directory when the plugin starts: any listing order of any
\* subset of the devices, each device listed once.
InitDirectories ==
    UNION {{s \in [1..n -> InitEntries] :
               \A i, j \in 1..n : i # j => s[i].deviceId # s[j].deviceId} :
           n \in 0..Cardinality(DeviceIds)}

NoRefresh == [result |-> "none", log |-> "none"]

\* The state after the LomiPlatform constructor: nothing is done before the
\* host emits didFinishLaunching.
Init ==
    /\ directory \in InitDirectories
    /\ changes = 0
    /\ pc = "constructed"
    /\ token = NoToken
    /\ loginResult = "pending"
    /\ fetchResult = "pending"
    /\ initError = <<>>
    /\ initResult = "pending"
    /\ registered = <<>>
    /\ created = FALSE
    /\ selectedId = ""
    /\ deviceEntry = NoEntry
    /\ displayName = ""
    /\ sensorValue = 0
    /\ updateInterval = FALSE
    /\ calls = <<>>
    /\ lastRefresh = NoRefresh
    /\ accessories = <<>>
    /\ tornDown = FALSE
    /\ tokenRejected = FALSE

(* ------------------------ the remote directory ------------------------ *)

\* The owner renames a device in the vendor's app.
Rename(i, n) ==
    /\ changes < MaxChanges
    /\ i \in Indices(directory)
    /\ directory[i].nickname # n
    /\ changes' = changes + 1
    /\ directory' = [directory EXCEPT ![i].nickname = n,
                                      ![i].version = changes + 1]
    /\ UNCHANGED <<platformVars, accessoryVars, calls, lastRefresh,
                   hostVars>>

\* The appliance reports a new remaining cycle time, or stops reporting one.
SetCycleTime(i, c) ==
    /\ changes < MaxChanges
    /\ i \in Indices(directory)
    /\ directory[i].cycleTimeRemaining # c
    /\ changes' = changes + 1
    /\ directory' = [directory EXCEPT ![i].cycleTimeRemaining = c,
                                      ![i].version = changes + 1]
    /\ UNCHANGED <<platformVars, accessoryVars, calls, lastRefresh,
                   hostVars>>

\* A device is removed from the account.
RemoveDevice(i) ==
    /\ changes < MaxChanges
    /\ i \in Indices(directory)
    /\ changes' = changes + 1
    /\ directory' = RemoveAt(directory, i)
    /\ UNCHANGED <<platformVars, accessoryVars, calls, lastRefresh,
                   hostVars>>

\* A device is added to the account.
AddDevice(d, n, c) ==
    /\ changes < MaxChanges
    /\ \A i \in Indices(directory) : directory[i].deviceId # d
    /\ changes' = changes + 1
    /\ directory' = Append(directory, Entry(d, n, c, changes + 1))
    /\ UNCHANGED <<platformVars, accessoryVars, calls, lastRefresh,
                   hostVars>>

(* ---------------------------- the platform ---------------------------- *)

\* didFinishLaunching: init() starts and login() sends its request.
DidFinishLaunching ==
    /\ pc = "constructed"
    /\ pc' = "login"
    /\ UNCHANGED <<remoteVars, token, loginResult, fetchResult, initError,
                   initResult, registered, selectedId, accessoryVars, calls,
                   lastRefresh, hostVars>>

\* login() fails: non-success status, no AuthenticationResult, transport or
\* parse failure.  login() rethrows, init() catches; nothing else runs.
LoginFails(kind) ==
    /\ pc = "login"
    /\ kind \in LoginFailures
    /\ loginResult' = LoginCatch(kind)
    /\ initError' = IF loginResult' = "rejected" THEN <<"login", kind>>
                                                ELSE <<>>
    /\ initResult' = InitCatch(kind)
    /\ pc' = "done"
    /\ UNCHANGED <<remoteVars, token, fetchResult, registered, selectedId,
                   accessoryVars, calls, lastRefresh,
                   hostVars>>

\* login() returns the IdToken; init() stores it and fetchDevices() sends the
\* directory request.
LoginSucceeds ==
    /\ pc = "login"
    /\ loginResult' = "resolved"
    /\ token' = IdToken
    /\ pc' = "fetch"
    /\ UNCHANGED <<remoteVars, fetchResult, initError, initResult, registered,
                   selectedId, accessoryVars, calls, lastRefresh,
                   hostVars>>

\* login() returns an IdToken that is missing or empty; init() stores it and
\* calls fetchDevices(), which throws at its test of the token, before its
\* try and before any request; init() catches.
LoginYieldsNoToken ==
    /\ pc = "login"
    /\ loginResult' = "resolved"
    /\ token' = NoToken
    /\ IF FetchDevicesStart(token') = "noToken"
       THEN /\ fetchResult' = "rejected"
            /\ initError' = <<"fetchDevices", "noToken">>
            /\ initResult' = InitCatch("noToken")
            /\ pc' = "done"
       ELSE /\ pc' = "fetch"
            /\ UNCHANGED <<fetchResult, initError, initResult>>
    /\ UNCHANGED <<remoteVars, registered, selectedId, accessoryVars, calls,
                   lastRefresh, hostVars>>

\* The directory fetch of init() fails; fetchDevices() rethrows, init() catches.
InitFetchFails(kind) ==
    /\ pc = "fetch"
    /\ kind \in FetchFailures
    /\ fetchResult' = FetchDevicesCatch(kind)
    /\ initError' = IF fetchResult' = "rejected" THEN <<"fetchDevices", kind>>
                                                ELSE <<>>
    /\ initResult' = InitCatch(kind)
    /\ pc' = "done"
    /\ UNCHANGED <<remoteVars, token, loginResult, registered, selectedId,
                   accessoryVars, calls, lastRefresh,
                   hostVars>>

\* The directory endpoint accepts the token and the fetch of init() returns
\* the listing.  Without a match init()
\* returns; with one it constructs the accessory object (whose constructor
\* sets the sensor to 0, starts the first updateStatus and schedules the
\* timer) and registers the accessory with the host.
InitFetchSucceeds ==
    /\ pc = "fetch"
    /\ ~tokenRejected
    /\ LET selectedDevice == SelectDevice(directory, deviceNickname)
       IN  IF ~selectedDevice.found
           THEN UNCHANGED <<registered, selectedId, accessoryVars, calls>>
           ELSE /\ selectedId' = selectedDevice.entry.deviceId
                /\ created' = TRUE
                /\ deviceEntry' = selectedDevice.entry
                /\ displayName' = selectedDevice.entry.nickname
                /\ sensorValue' = 0
                /\ calls' = Append(calls, NewCall(selectedDevice.entry, token))
                /\ updateInterval' = TRUE
                /\ registered' =
                       Append(registered, Uuid(selectedDevice.entry.deviceId))
    /\ fetchResult' = "resolved"
    /\ initResult' = "resolved"
    /\ pc' = "done"
    /\ UNCHANGED <<remoteVars, token, loginResult, initError, lastRefresh,
                   hostVars>>

(* --------------------------- the accessory ---------------------------- *)

\* The interval timer fires: updateStatus() runs up to its await.
TimerTick ==
    /\ updateInterval
    /\ Len(calls) < MaxInFlight
    /\ calls' = Append(calls, NewCall(deviceEntry, token))
    /\ UNCHANGED <<remoteVars, platformVars, accessoryVars, lastRefresh,
                   hostVars>>

\* The directory endpoint accepts the token of call i's request and answers
\* it with the listing as it is now.
ServerResponds(i) ==
    /\ i \in Indices(calls)
    /\ calls[i].stage = "sent"
    /\ ~tokenRejected
    /\ calls' = [calls EXCEPT ![i].stage = "responded",
                              ![i].devices = directory]
    /\ UNCHANGED <<remoteVars, platformVars, accessoryVars, lastRefresh,
                   hostVars>>

\* The token as it would be if a rejected request made the tick log in again.
TokenRenewedOnError(tok, fetch) ==
    IF fetch = "httpStatus" THEN "renewed" ELSE tok

\* The platform's token after a refresh whose fetchDevices() ended as given:
\* neither refreshDeviceStatus nor updateStatus calls login() or assigns it.
TokenAfterRefresh(tok, fetch) == tok

\* How call i completes, given how its fetchDevices() ended: the rest of
\* refreshDeviceStatus and of updateStatus run without interruption.
Complete(i, fetch, devices) ==
    LET deviceId == calls[i].deviceId
        result   == RefreshDeviceStatus(fetch, devices, deviceId)
        after    == UpdateStatus([deviceEntry |-> deviceEntry,
                                  displayName |-> displayName,
                                  sensorValue |-> sensorValue], result)
    IN  /\ deviceEntry' = after.deviceEntry
        /\ displayName' = after.displayName
        /\ sensorValue' = after.sensorValue
        /\ lastRefresh' = [result |-> result.kind, log |-> result.log]
        /\ calls' = RemoveAt(calls, i)
        /\ token' = TokenAfterRefresh(token, fetch)
        /\ UNCHANGED <<remoteVars, pc, loginResult, fetchResult, initError,
                       initResult, registered, selectedId, created,
                       updateInterval, hostVars>>

\* The response of call i reaches the accessory.
RefreshSucceeds(i) ==
    /\ i \in Indices(calls)
    /\ calls[i].stage = "responded"
    /\ Complete(i, "ok", calls[i].devices)

\* The fetch of call i fails: no token, or the request fails.
RefreshFails(i, kind) ==
    /\ i \in Indices(calls)
    /\ \/ calls[i].stage = "noToken" /\ kind = "noToken"
       \/ calls[i].stage = "sent" /\ kind \in FetchFailures
    /\ Complete(i, kind, <<>>)

(* --------------------------- specification ---------------------------- *)

Next ==
    \/ \E i \in 1..Cardinality(DeviceIds), n \in Nicknames : Rename(i, n)
    \/ \E i \in 1..Cardinality(DeviceIds), c \in CtrValues : SetCycleTime(i, c)
    \/ \E i \in 1..Cardinality(DeviceIds) : RemoveDevice(i)
    \/ \E d \in DeviceIds, n \in Nicknames, c \in CtrValues : AddDevice(d, n, c)
    \/ DidFinishLaunching
    \/ \E kind \in LoginFailures : LoginFails(kind)
    \/ LoginSucceeds
    \/ LoginYieldsNoToken
    \/ \E kind \in FetchFailures : InitFetchFails(kind)
    \/ InitFetchSucceeds
    \/ TimerTick
    \/ \E i \in 1..MaxInFlight : ServerResponds(i)
    \/ \E i \in 1..MaxInFlight : RefreshSucceeds(i)
    \/ \E i \in 1..MaxInFlight, kind \in FetchFailures \cup {"noToken"} :
           RefreshFails(i, kind)

Spec == Init /\ [][Next]_vars

(* ------------------------------ the host ------------------------------ *)

\* configureAccessory: the host hands over an accessory it restored from its
\* cache, before it emits didFinishLaunching; the platform keeps it in
\* this.accessories.  The host's cache holds each uuid once.
ConfigureAccessory(d) ==
    /\ pc = "constructed"
    /\ \A k \in Indices(accessories) : accessories[k] # Uuid(d)
    /\ accessories' = Append(accessories, Uuid(d))
    /\ UNCHANGED <<remoteVars, platformVars, accessoryVars, calls, lastRefresh,
                   tornDown, tokenRejected>>

\* The host removes the accessory.  LomiPlatformAccessory has no teardown
\* code: the handle kept in updateInterval is never passed to clearInterval.
Teardown ==
    /\ created
    /\ ~tornDown
    /\ tornDown' = TRUE
    /\ UNCHANGED <<remoteVars, platformVars, accessoryVars, calls, lastRefresh,
                   accessories, tokenRejected>>

NextHost ==
    \/ Next
    \/ \E d \in DeviceIds : ConfigureAccessory(d)
    \/ Teardown

SpecHost == Init /\ [][NextHost]_vars

(* -------------------------- token rejection --------------------------- *)

\* The directory starts rejecting the token login() issued (it expired or was
\* revoked).  The token is only ever obtained by init(), so it stays rejected.
TokenRejected ==
    /\ token = IdToken
    /\ ~tokenRejected
    /\ tokenRejected' = TRUE
    /\ UNCHANGED <<remoteVars, platformVars, accessoryVars, calls, lastRefresh,
                   accessories, tornDown>>

NextExpiry ==
    \/ Next
    \/ TokenRejected

SpecExpiry == Init /\ [][NextExpiry]_vars

(* ------------------- display mapping, on its own ---------------------- *)

\* An accessory between two ticks: it was created for d1, its last refresh
\* returned an entry without a cycle time or with 125 s, and the appliance
\* now reports any cycle time up to MaxSeconds, or none.
InitMapping ==
    \E c \in {Undefined} \cup {Defined(s) : s \in 0..MaxSeconds},
       before \in {<<Undefined, 0>>, <<Defined(125), 2>>} :
        /\ directory = <<Entry("d1", deviceNickname, c, 1)>>
        /\ changes = MaxChanges
        /\ pc = "done"
        /\ token = IdToken
        /\ loginResult = "resolved"
        /\ fetchResult = "resolved"
        /\ initError = <<>>
        /\ initResult = "resolved"
        /\ registered = <<Uuid("d1")>>
        /\ created = TRUE
        /\ selectedId = "d1"
        /\ deviceEntry = Entry("d1", deviceNickname, before[1], 0)
        /\ displayName = deviceNickname
        /\ sensorValue = before[2]
        /\ updateInterval = TRUE
        /\ calls = <<>>
        /\ lastRefresh = [result |-> "entry", log |-> "debug"]
        /\ accessories = <<>>
        /\ tornDown = FALSE
        /\ tokenRejected = FALSE

NextMapping ==
    \/ TimerTick
    \/ \E i \in 1..MaxInFlight : ServerResponds(i)
    \/ \E i \in 1..MaxInFlight : RefreshSucceeds(i)

SpecMapping == InitMapping /\ [][NextMapping]_vars

(* ------------------------- steps and helpers -------------------------- *)

\* The step completes call i: updateStatus resumes and returns.
Completes(i) == i \in Indices(calls) /\ calls' = RemoveAt(calls, i)

\* The step completes call i, whose directory fetch succeeded.
FetchOkTick(i) == Completes(i) /\ calls[i].stage = "responded"

\* The step completes call i, whose directory fetch failed.
FetchErrorTick(i) == Completes(i) /\ calls[i].stage \in {"sent", "noToken"}

\* Positions of the tracked device in a fetched listing.
TrackedIn(devices) ==
    {k \in Indices(devices) : devices[k].deviceId = selectedId}

FirstOf(S) == CHOOSE k \in S : \A j \in S : k <= j

\* Cached entry, display name and sensor value are what they were.
AccessoryUntouched == UNCHANGED <<deviceEntry, displayName, sensorValue>>

(* ------------------------------ claims -------------------------------- *)

\* C1: a tick whose directory fetch succeeds but whose listing has no entry
\* with the tracked deviceId leaves the cached entry, the display name and
\* the sensor value exactly as they were.
C1_NotFoundLeavesAccessory ==
    [][\A i \in 1..MaxInFlight :
           (FetchOkTick(i) /\ TrackedIn(calls[i].devices) = {})
               => AccessoryUntouched]_vars

\* C1 witness: the last refresh ended in not-found (log.warn, undefined), the
\* tracked device is gone from the directory, and the accessory still shows
\* the entry cached before, with its 2 minutes.
C1_Witness ==
    /\ created
    /\ lastRefresh = [result |-> "undefined", log |-> "warn"]
    /\ TrackedIn(directory) = {}
    /\ deviceEntry.deviceId = selectedId
    /\ deviceEntry.cycleTimeRemaining = Defined(125)
    /\ displayName = deviceEntry.nickname
    /\ sensorValue = 2

\* C2: when fetchDevices fails inside refreshDeviceStatus, the call returns
\* undefined (after log.error) instead of raising, and the tick leaves the
\* cached entry, the display name and the sensor value unchanged.
C2_FetchErrorAbsorbed ==
    [][\A i \in 1..MaxInFlight :
           FetchErrorTick(i)
               => /\ lastRefresh' = [result |-> "undefined", log |-> "error"]
                  /\ AccessoryUntouched]_vars

\* C2 witness: the last refresh ended in a caught fetch error while the
\* accessory shows 2 minutes from an earlier successful refresh.
C2_Witness ==
    /\ created
    /\ lastRefresh = [result |-> "undefined", log |-> "error"]
    /\ deviceEntry.cycleTimeRemaining = Defined(125)
    /\ sensorValue = 2

\* C3: once the accessory exists, the cached entry has the deviceId of the
\* entry selected at startup, whatever the refreshes return and however
\* nicknames change in the directory.
C3_TrackedIdFixed == created => deviceEntry.deviceId = selectedId

\* C3 witness: after startup another device, listed first, was renamed to the
\* configured nickname, and a refresh has since returned an entry.
C3_Witness ==
    /\ created
    /\ lastRefresh.result = "entry"
    /\ deviceEntry.deviceId = selectedId
    /\ Len(directory) = 2
    /\ directory[1].deviceId # selectedId
    /\ directory[1].nickname = deviceNickname
    /\ directory[1].version > 0
    /\ deviceEntry.version = 0

\* C4: a tick that ends in not-found or in a fetch error leaves the timer
\* scheduled and the cached entry in place; and when the refresh before ended
\* that way, a tick whose fetch succeeds with the tracked deviceId in the
\* listing replaces the cached entry by the fetched one.
C4_KeepsPollingAndRecovers ==
    [][\A i \in 1..MaxInFlight :
           /\ (Completes(i) /\ lastRefresh'.result # "entry")
                  => /\ updateInterval'
                     /\ deviceEntry' = deviceEntry
                     /\ deviceEntry' # NoEntry
           /\ (/\ FetchOkTick(i)
               /\ lastRefresh.result = "undefined"
               /\ TrackedIn(calls[i].devices) # {})
                  => deviceEntry' =
                         calls[i].devices[FirstOf(TrackedIn(calls[i].devices))]
      ]_vars

\* C4 witness: the last refresh ended unavailable, the timer is still
\* scheduled, and a tick is in flight whose listing holds the tracked device
\* with an entry other than the cached one.
C4_Witness ==
    /\ created
    /\ updateInterval
    /\ lastRefresh.result = "undefined"
    /\ \E i \in Indices(calls) :
           /\ calls[i].stage = "responded"
           /\ TrackedIn(calls[i].devices) # {}
           /\ calls[i].devices[FirstOf(TrackedIn(calls[i].devices))]
                  # deviceEntry

\* C5: a successful refresh whose listing holds the tracked deviceId matches
\* it whatever its nickname, replaces the cached entry by it, and leaves the
\* display name equal to the nickname of the cached entry.
C5_NicknameChangeFollowed ==
    [][\A i \in 1..MaxInFlight :
           (FetchOkTick(i) /\ TrackedIn(calls[i].devices) # {})
               => LET fetched ==
                          calls[i].devices[FirstOf(TrackedIn(calls[i].devices))]
                  IN  /\ lastRefresh'.result = "entry"
                      /\ deviceEntry' = fetched
                      /\ displayName' = fetched.nickname
                      /\ displayName' = deviceEntry'.nickname]_vars

\* C5 witness: the device selected under the configured nickname is now
\* cached, after a refresh, under another nickname, which the accessory shows.
C5_Witness ==
    /\ created
    /\ lastRefresh.result = "entry"
    /\ deviceEntry.deviceId = selectedId
    /\ deviceEntry.nickname # deviceNickname
    /\ displayName = deviceEntry.nickname

\* C6: when login or the directory fetch of init fails, the failing call
\* rejects, init catches the error and resolves, and no accessory is
\* created or registered, no timer is scheduled and no refresh is started;
\* after a failed login no token is held.
C6_StartupFailureBlocksCreation ==
    /\ (loginResult = "rejected" \/ fetchResult = "rejected")
           => /\ initError # <<>>
              /\ pc = "done"
              /\ initResult = "resolved"
              /\ ~created
              /\ registered = <<>>
              /\ ~updateInterval
              /\ calls = <<>>
              /\ lastRefresh = NoRefresh
    /\ loginResult = "rejected" => token = NoToken /\ fetchResult = "pending"
    /\ (pc = "done" /\ loginResult # "resolved")
           => loginResult = "rejected" /\ initError[1] = "login"
    /\ (pc = "done" /\ loginResult = "resolved" /\ fetchResult # "resolved")
           => fetchResult = "rejected" /\ initError[1] = "fetchDevices"
    /\ initResult # "rejected"

\* C6 witness: login answered without an AuthenticationResult while the
\* directory lists a device with the configured nickname.
C6_Witness ==
    /\ pc = "done"
    /\ initError = <<"login", "noAuthResult">>
    /\ \E i \in Indices(directory) : directory[i].nickname = deviceNickname

\* C7: init selects the first entry, in listing order, whose nickname equals
\* the configured nickname exactly; without such an entry nothing is selected.
C7_SelectionExactFirstHit ==
    [][(pc = "fetch" /\ pc' = "done" /\ fetchResult' = "resolved")
           => LET matching == {i \in Indices(directory) :
                                   directory[i].nickname = deviceNickname}
              IN  IF matching = {}
                  THEN ~created' /\ selectedId' = "" /\ deviceEntry' = NoEntry
                  ELSE /\ created'
                       /\ deviceEntry' = directory[FirstOf(matching)]
                       /\ selectedId' = directory[FirstOf(matching)].deviceId
                       /\ \A j \in 1..(FirstOf(matching) - 1) :
                              directory[j].nickname # deviceNickname]_vars

\* C7 witness: two devices share the configured nickname in the listing init
\* fetched, and the accessory tracks the one listed first.
C7_Witness ==
    /\ created
    /\ changes = 0
    /\ Len(directory) = 2
    /\ directory[1].nickname = deviceNickname
    /\ directory[2].nickname = deviceNickname
    /\ selectedId = directory[1].deviceId

\* C8: when the directory fetch of init succeeds and no entry has the
\* configured nickname, init resolves without creating or registering an
\* accessory, scheduling a timer or starting a refresh.
C8_StartupNotFoundRecoverable ==
    [][(/\ pc = "fetch"
        /\ pc' = "done"
        /\ fetchResult' = "resolved"
        /\ \A i \in Indices(directory) : directory[i].nickname # deviceNickname)
           => /\ ~created'
              /\ registered' = <<>>
              /\ ~updateInterval'
              /\ calls' = <<>>
              /\ initError' = <<>>
              /\ initResult' = "resolved"]_vars

\* C8 witness: init is done after a successful fetch of a listing whose only
\* devices are named otherwise (differing in case), and no accessory exists.
C8_Witness ==
    /\ pc = "done"
    /\ fetchResult = "resolved"
    /\ changes = 0
    /\ directory # <<>>
    /\ \A i \in Indices(directory) : directory[i].nickname = "kitchen"
    /\ ~created
    /\ registered = <<>>

\* The values P1 of the specification lists, and the scenario's 125 s.
MappingExamples ==
    {<<0, 0>>, <<59, 1>>, <<60, 1>>, <<89, 1>>, <<90, 2>>, <<91, 2>>,
     <<125, 2>>}

\* C9: after a successful refresh the sensor shows 0 when the entry has no
\* cycleTimeRemaining, and otherwise the whole number of minutes nearest to
\* seconds/60, a half rounded up.
C9_DisplayMapping ==
    lastRefresh.result = "entry"
        => IF deviceEntry.cycleTimeRemaining = Undefined
           THEN sensorValue = 0
           ELSE LET s == deviceEntry.cycleTimeRemaining[1]
                IN  /\ 60 * sensorValue - 30 <= s
                    /\ s < 60 * sensorValue + 30
                    /\ \A e \in MappingExamples :
                           s = e[1] => sensorValue = e[2]

\* C9 witness: a refresh has replaced an entry shown as 2 minutes by one of
\* 90 s, the tie, and the sensor shows 2.
C9_Witness ==
    /\ lastRefresh.result = "entry"
    /\ calls = <<>>
    /\ deviceEntry.version = 1
    /\ deviceEntry.cycleTimeRemaining = Defined(90)
    /\ sensorValue = 2

\* C10: at most one updateStatus call of the accessory is in flight.
C10_AtMostOneInFlight == Len(calls) <= 1

\* C11: when the uuid derived from the selected deviceId is that of an
\* accessory restored through configureAccessory, init reuses it: nothing is
\* passed to registerPlatformAccessories, so the host holds the uuid once.
C11_RestoredAccessoryReused ==
    (/\ created
     /\ \E k \in Indices(accessories) : accessories[k] = Uuid(selectedId))
        => registered = <<>>

\* C12: once the host has removed the accessory its timer is cancelled: no
\* step starts a further updateStatus call.
C12_NoTickAfterTeardown ==
    [][tornDown => Len(calls') <= Len(calls)]_vars

\* A directory request is awaiting its answer or has been answered.
RequestIssued ==
    \/ pc = "fetch"
    \/ \E i \in Indices(calls) : calls[i].stage \in {"sent", "responded"}

\* C13: a directory request is issued only while a token is held; when
\* fetchDevices is called without one it fails at once, before any request,
\* and init ends there.
C13_NoRequestWithoutToken ==
    /\ RequestIssued => token # NoToken
    /\ (loginResult = "resolved" /\ token = NoToken)
           => /\ pc = "done"
              /\ fetchResult = "rejected"
              /\ initError = <<"fetchDevices", "noToken">>
              /\ ~created
              /\ calls = <<>>

\* C13 witness: login returned no usable IdToken, fetchDevices threw on its
\* test of the token, and no request is or was in flight.
C13_Witness ==
    /\ pc = "done"
    /\ loginResult = "resolved"
    /\ token = NoToken
    /\ initError = <<"fetchDevices", "noToken">>
    /\ ~RequestIssued
    /\ \E i \in Indices(directory) : directory[i].nickname = deviceNickname

\* C14: once the accessory exists, the sensor shows the minutes of the cached
\* entry's cycleTimeRemaining (0 without one) in every state, from the entry
\* selected at startup on.
C14_DisplayReflectsCachedEntry ==
    created
        => IF deviceEntry.cycleTimeRemaining = Undefined
           THEN sensorValue = 0
           ELSE /\ 60 * sensorValue - 30 <= deviceEntry.cycleTimeRemaining[1]
                /\ deviceEntry.cycleTimeRemaining[1] < 60 * sensorValue + 30

\* A response the directory sent while it accepted the token is still on its
\* way to the accessory.
ResponsePending == \E i \in Indices(calls) : calls[i].stage = "responded"

\* C15, as claimed: from the moment the directory rejects the held token the
\* cached entry, the display name and the sensor value never change again.
C15_NothingChangesOnceRejected == [][tokenRejected => AccessoryUntouched]_vars

\* C15, amended: the token is assigned once, by init, and no tick assigns it
\* or logs in; once the directory rejects it, every refresh the directory has
\* not answered before ends undefined after log.error and changes nothing,
\* and no response is sent any more, so that after the delivery of the
\* responses sent before nothing changes again.
C15_SingleLoginNoRenewal ==
    [][/\ token' # token => (pc = "login" /\ token = NoToken)
       /\ (Len(calls') # Len(calls)) => UNCHANGED <<token, loginResult>>
       /\ \A i \in 1..MaxInFlight :
              (tokenRejected /\ Completes(i) /\ calls[i].stage # "responded")
                  => /\ lastRefresh' = [result |-> "undefined", log |-> "error"]
                     /\ AccessoryUntouched
       /\ (tokenRejected /\ ~ResponsePending)
              => AccessoryUntouched /\ ~ResponsePending'
      ]_vars

\* C15 witness: the token is rejected, the last refresh ended in a caught
\* error, no earlier response is pending, and the directory holds the tracked
\* device with an entry newer than the cached one.
C15_Witness ==
    /\ created
    /\ tokenRejected
    /\ ~ResponsePending
    /\ lastRefresh = [result |-> "undefined", log |-> "error"]
    /\ \E k \in TrackedIn(directory) : directory[k].version > deviceEntry.version

\* C16: the version of the cached entry never decreases, the directory's
\* versions never decreasing either.
C16_CachedVersionNeverDecreases ==
    [][created => deviceEntry'.version >= deviceEntry.version]_vars

====
